---- MODULE Spec2Model ----
(***************************************************************************)
(* A model of three components of SSE Auto Translator:                     *)
(*   - AudioTranslationEditor (src/src/translation_audio/audio_editor.py)  *)
(*   - Localisator            (src/src/utilities/localisation.py)          *)
(*   - AppSettings            (src/src/settings/app_settings.py)           *)
(* The components do not call each other; each has its own specification.  *)
(***************************************************************************)
EXTENDS Integers, FiniteSets, Sequences, TLC

(***************************************************************************)
(* Bounds of the model.                                                    *)
(***************************************************************************)
\* deepest directory level below the root of a tree (root = level 0)
MaxDepth == 1
\* most files in a tree the environment hands to the editor
MaxFiles == 2
\* most files in a mod directory
MaxModFiles == 2

(***************************************************************************)
(* PART 1 - AudioTranslationEditor                                         *)
(*                                                                         *)
(* A directory tree is a chain of nested directories, levels 0..depth      *)
(* (depth = -1: the root itself does not exist), and a set of files.  A    *)
(* file is <<level, stem, extension>>.                                     *)
(***************************************************************************)
Stems == {"a"}
Exts == {"fuz", "FUZ", "xwm", "lip", "wav"}
ModStems == {"a"}
ModExts == {"BSA", "fuz", "XWM", "txt"}
Levels == 0..MaxDepth
Paths == Levels \X Stems \X Exts
ModPaths == Levels \X ModStems \X ModExts

\* str.lower() on the suffixes that occur
Lower(e) ==
  CASE e = "FUZ" -> "fuz"
    [] e = "XWM" -> "xwm"
    [] e = "LIP" -> "lip"
    [] e = "BSA" -> "bsa"
    [] e = "WAV" -> "wav"
    [] OTHER -> e

\* Path.with_suffix: same directory, same stem, new suffix
with_suffix(p, e) == <<p[1], p[2], e>>

VARIABLES
  ws,     \* the tree the editor works on (script_dir/extracted_files)
  pc,     \* "idle" | "walk" | "returned": where the caller of the editor is
  walk,   \* the frame of convert_audio_files while pc = "walk"
  last    \* what the last operation did, read by its caller at "returned"

audioVars == <<ws, pc, walk, last>>

VARIABLES
  langs,  \* the localisation root: language directory -> stems of its *.json
  loc,    \* the Localisator object
  look    \* the last attribute lookup evaluated on it, with what it logged

locVars == <<langs, loc, look>>

VARIABLES
  sw,     \* the widgets of the AppSettings panel
  got     \* what get_settings() last returned, until the next edit

setVars == <<sw, got>>

vars == <<audioVars, locVars, setVars>>

SmallSets(S, n) == {T \in SUBSET S : Cardinality(T) <= n}

\* a tree that does not exist, and the trees of at most n files: the chain
\* of directories is complete, every file lies in one of them
NoTree == [depth |-> -1, files |-> {}]
Trees(paths, n) ==
  {NoTree} \cup {[depth |-> MaxDepth, files |-> F] : F \in SmallSets(paths, n)}

NoWalk ==
  [dir |-> 0, todo |-> {}, found |-> FALSE, seen |-> FALSE, fails |-> {},
   delFail |-> FALSE]
NoCall ==
  [op |-> "none", path |-> <<>>, result |-> "none", value |-> "none",
   errors |-> 0, fails |-> {}, delFail |-> FALSE, conv |-> {}, note |-> <<>>]

(***************************************************************************)
(* The effect of one editor operation on the file system is threaded       *)
(* through a record m: the files, whether an exception is propagating,     *)
(* the number of log.error calls, the kinds of failure met, whether an     *)
(* unlink of an existing file failed, and the paths convert_xwm was called *)
(* with.                                                                   *)
(***************************************************************************)
Start(files) ==
  [fs |-> files, raised |-> FALSE, errors |-> 0, fails |-> {},
   delFail |-> FALSE, conv |-> {}]

\* outcomes of subprocess.run(..., check=True): exit code 0, a non-zero exit
\* code (CalledProcessError), or the launch itself failing (OSError)
Exit0 == "exit0"
ExitN == "exitN"
Launch == "launch"
RunOutcomes == {Exit0, ExitN, Launch}

\* run with no except clause: a non-zero exit code propagates
run_uncaught(m, out, made) ==
  CASE out = Launch -> [m EXCEPT !.raised = TRUE, !.fails = @ \cup {"launch"}]
    [] out = ExitN -> [m EXCEPT !.fs = @ \cup made, !.raised = TRUE,
                                !.fails = @ \cup {"exit"}]
    [] OTHER -> [m EXCEPT !.fs = @ \cup made]

\* subprocess.run inside try/except CalledProcessError (lines 92-98,
\* 191-195, 219-223); made: the files the tool wrote
run(m, out, made) ==
  CASE out = Launch -> [m EXCEPT !.raised = TRUE, !.fails = @ \cup {"launch"}]
    [] out = ExitN -> [m EXCEPT !.fs = @ \cup made, !.errors = @ + 1,
                                !.fails = @ \cup {"exit"}]
    [] OTHER -> [m EXCEPT !.fs = @ \cup made]

\* delete_file; ok: does unlink() of an existing file succeed.  unlink() of
\* a missing file raises FileNotFoundError, an OSError, which is caught too.
delete_file(m, p, ok) ==
  IF p \in m.fs /\ ok
    THEN [m EXCEPT !.fs = @ \ {p}]
    ELSE [m EXCEPT !.errors = @ + 1, !.fails = @ \cup {"unlink"},
                   !.delFail = @ \/ (p \in m.fs)]

\* what the encoder writes: the .wav beside an existing input
encoded(m, p, wav) == IF wav /\ p \in m.fs THEN {with_suffix(p, "wav")} ELSE {}

\* convert_xwm deleting its input only after a successful conversion
convert_xwm_delete_on_success(m, p, enc, wav, ok) ==
  LET m1 == run([m EXCEPT !.conv = @ \cup {p}], enc, encoded(m, p, wav))
  IN IF m1.raised \/ enc # Exit0 THEN m1 ELSE delete_file(m1, p, ok)

\* convert_xwm; enc: the encoder's outcome, wav: whether it wrote the .wav
convert_xwm(m, p, enc, wav, ok) ==
  LET m1 == run([m EXCEPT !.conv = @ \cup {p}], enc, encoded(m, p, wav))
  IN IF m1.raised THEN m1 ELSE delete_file(m1, p, ok)

\* what the decoder writes: the .xwm and the .lip packed in an existing .fuz
decoded(m, p, e) ==
  IF p \in m.fs
    THEN (IF e.mkXwm THEN {with_suffix(p, "xwm")} ELSE {})
         \cup (IF e.mkLip THEN {with_suffix(p, "lip")} ELSE {})
    ELSE {}

\* decode_fuz cleaning up only after a successful decoding
decode_fuz_delete_on_success(m, p, e) ==
  LET m1 == run(m, e.dec, decoded(m, p, e))
      xwm_file == with_suffix(p, "xwm")
      m2 == IF ~m1.raised /\ xwm_file \in m1.fs
              THEN convert_xwm(m1, xwm_file, e.enc, e.wav, e.okXwm)
              ELSE m1
      m3 == delete_file(m2, p, e.okFuz)
      lip_file == with_suffix(p, "lip")
  IN IF m2.raised \/ e.dec # Exit0 THEN m2
     ELSE IF lip_file \in m3.fs THEN delete_file(m3, lip_file, e.okLip)
     ELSE m3

\* decode_fuz that leaves the .lip file in place
decode_fuz_keep_lip(m, p, e) ==
  LET m1 == run(m, e.dec, decoded(m, p, e))
      xwm_file == with_suffix(p, "xwm")
      m2 == IF ~m1.raised /\ xwm_file \in m1.fs
              THEN convert_xwm(m1, xwm_file, e.enc, e.wav, e.okXwm)
              ELSE m1
  IN IF m2.raised THEN m2 ELSE delete_file(m2, p, e.okFuz)

\* decode_fuz; e: the environment's answers (decoder and encoder outcomes,
\* the files they write, the result of each unlink)
decode_fuz(m, p, e) ==
  LET m1 == run(m, e.dec, decoded(m, p, e))
      xwm_file == with_suffix(p, "xwm")
      m2 == IF ~m1.raised /\ xwm_file \in m1.fs
              THEN convert_xwm(m1, xwm_file, e.enc, e.wav, e.okXwm)
              ELSE m1
      m3 == delete_file(m2, p, e.okFuz)
      lip_file == with_suffix(p, "lip")
  IN IF m2.raised THEN m2
     ELSE IF lip_file \in m3.fs THEN delete_file(m3, lip_file, e.okLip)
     ELSE m3

(***************************************************************************)
(* The answers the environment can give, cut down to those the operation   *)
(* will actually ask for.                                                  *)
(***************************************************************************)
Bools(c) == IF c THEN BOOLEAN ELSE {FALSE}

EncEnvs(fs, p) ==
  {[enc |-> en, wav |-> w, ok |-> o] :
     en \in RunOutcomes, w \in Bools(p \in fs), o \in Bools(p \in fs)}

DecodeEnvs(fs, p) ==
  UNION {
    LET xwmAfter == with_suffix(p, "xwm") \in fs \/ x
        lipAfter == with_suffix(p, "lip") \in fs \/ l
    IN {[dec |-> d, mkXwm |-> x, mkLip |-> l, enc |-> en, wav |-> w,
         okXwm |-> ox, okFuz |-> of, okLip |-> ol] :
          en \in IF xwmAfter THEN RunOutcomes ELSE {Exit0},
          w \in Bools(xwmAfter), ox \in Bools(xwmAfter),
          of \in Bools(p \in fs), ol \in Bools(lipAfter)}
    : d \in RunOutcomes, x \in Bools(p \in fs), l \in Bools(p \in fs)}

\* what the caller of a finished operation sees
Returned(op, path, m, value, note) ==
  [op |-> op, path |-> path,
   result |-> IF m.raised THEN "raised" ELSE "returned",
   value |-> IF m.raised THEN "exception" ELSE value,
   errors |-> m.errors, fails |-> m.fails, delFail |-> m.delFail,
   conv |-> m.conv, note |-> note]

(***************************************************************************)
(* Direct calls of the three file operations.  An operation is started     *)
(* only on a tree within the bound MaxFiles.                               *)
(***************************************************************************)
Ready == pc = "idle" /\ Cardinality(ws.files) <= MaxFiles

DeleteFile ==
  /\ Ready
  /\ \E p \in Paths : \E ok \in Bools(p \in ws.files) :
       LET m == delete_file(Start(ws.files), p, ok)
       IN /\ ws' = [ws EXCEPT !.files = m.fs]
          /\ last' = Returned("delete_file", p, m, "None", <<>>)
  /\ pc' = "returned"
  /\ UNCHANGED <<walk, locVars, setVars>>

ConvertXwm ==
  /\ Ready
  /\ \E p \in Paths : \E e \in EncEnvs(ws.files, p) :
       LET m == convert_xwm(Start(ws.files), p, e.enc, e.wav, e.ok)
       IN /\ ws' = [ws EXCEPT !.files = m.fs]
          /\ last' = Returned("convert_xwm", p, m, "None", [enc |-> e.enc, wav |-> e.wav])
  /\ pc' = "returned"
  /\ UNCHANGED <<walk, locVars, setVars>>

DecodeFuz ==
  /\ Ready
  /\ \E p \in {q \in Paths : Lower(q[3]) = "fuz"} : \E e \in DecodeEnvs(ws.files, p) :
       LET m0 == Start(ws.files)
           m == decode_fuz(m0, p, e)
           after == run(m0, e.dec, decoded(m0, p, e))
       IN /\ ws' = [ws EXCEPT !.files = m.fs]
          /\ last' = Returned("decode_fuz", p, m, "None",
                        [dec |-> e.dec,
                         xwmAfter |-> with_suffix(p, "xwm") \in after.fs])
  /\ pc' = "returned"
  /\ UNCHANGED <<walk, locVars, setVars>>

(***************************************************************************)
(* convert_audio_files, lines 155-181.  os.walk lists one directory at a   *)
(* time, top down; the files of a listing are handled in any order, and a  *)
(* listing is not refreshed when the tools add or remove files.            *)
(***************************************************************************)
IsAudioName(f) == Lower(f[3]) \in {"fuz", "xwm", "lip"}

\* one step of os.walk: the files of directory k as they are now
Listing(t, k) == IF k <= t.depth THEN {f \in t.files : f[1] = k} ELSE {}

ConvertAudioFiles ==
  /\ Ready
  /\ pc' = "walk"
  /\ LET files == Listing(ws, 0)
     IN walk' = [NoWalk EXCEPT !.todo = files,
                                !.seen = \E f \in files : IsAudioName(f)]
  /\ UNCHANGED <<ws, last, locVars, setVars>>

\* the body of the inner loop for one listed file, lines 167-176
HandleFile(f, m, found) ==
  /\ ws' = [ws EXCEPT !.files = m.fs]
  /\ IF m.raised
       THEN /\ pc' = "returned"
            /\ walk' = NoWalk
            /\ last' = Returned("convert_audio_files", <<>>,
                          [m EXCEPT !.fails = @ \cup walk.fails,
                                    !.delFail = @ \/ walk.delFail],
                          "exception", [seen |-> walk.seen])
       ELSE /\ pc' = "walk"
            /\ walk' = [walk EXCEPT !.todo = @ \ {f}, !.found = found,
                                    !.fails = @ \cup m.fails,
                                    !.delFail = @ \/ m.delFail]
            /\ UNCHANGED last

WalkFile ==
  /\ pc = "walk"
  /\ \E f \in walk.todo :
       LET m0 == Start(ws.files)
           suffix == Lower(f[3])
       IN CASE suffix = "fuz" ->
                 \E e \in DecodeEnvs(ws.files, f) :
                    HandleFile(f, decode_fuz(m0, f, e), TRUE)
            [] suffix = "xwm" ->
                 \E e \in EncEnvs(ws.files, f) :
                    HandleFile(f, convert_xwm(m0, f, e.enc, e.wav, e.ok), TRUE)
            [] suffix = "lip" ->
                 \E ok \in Bools(f \in ws.files) :
                    HandleFile(f, delete_file(m0, f, ok), TRUE)
            [] OTHER -> HandleFile(f, m0, walk.found)
  /\ UNCHANGED <<locVars, setVars>>

WalkNextDir ==
  /\ pc = "walk"
  /\ walk.todo = {}
  /\ walk.dir < ws.depth
  /\ LET files == Listing(ws, walk.dir + 1)
     IN walk' = [walk EXCEPT !.dir = @ + 1, !.todo = files,
                             !.seen = @ \/ \E f \in files : IsAudioName(f)]
  /\ UNCHANGED <<ws, pc, last, locVars, setVars>>

WalkReturn ==
  /\ pc = "walk"
  /\ walk.todo = {}
  /\ walk.dir >= ws.depth
  /\ pc' = "returned"
  /\ walk' = NoWalk
  /\ last' = [NoCall EXCEPT !.op = "convert_audio_files", !.result = "returned",
                 !.value = IF walk.found THEN "True" ELSE "False",
                 !.errors = IF walk.found THEN 0 ELSE 1,
                 !.fails = walk.fails,
                 !.delFail = walk.delFail,
                 !.note = [seen |-> walk.seen]]
  /\ UNCHANGED <<ws, locVars, setVars>>

\* the caller takes the result and goes on
Return ==
  /\ pc = "returned"
  /\ pc' = "idle"
  /\ last' = NoCall
  /\ UNCHANGED <<ws, walk, locVars, setVars>>

(***************************************************************************)
(* extract_bsa, find_bsa_file and find_audio_files, lines 61-153.  The     *)
(* state of an extraction is a record x: the workspace tree, whether an    *)
(* exception is propagating, the log.error calls, the kinds of failure     *)
(* met, the argument lists the extractor was run with, and whether         *)
(* mod_path was scanned for loose files.  The caller                       *)
(* sees the mod directory as far as extract_bsa read it.                   *)
(***************************************************************************)
Workspace == "extracted_files"

StartX(t) ==
  [tree |-> t, raised |-> FALSE, errors |-> 0, fails |-> {}, runs |-> <<>>,
   scanned |-> FALSE]

Raise(x, kind) == [x EXCEPT !.raised = TRUE, !.fails = @ \cup {kind}]

\* find_bsa_file returning None
NoFile == <<>>

\* find_bsa_file comparing the suffix without lower()
find_bsa_file_case_sensitive(mod) ==
  LET found == {f \in mod.files : f[1] = 0 /\ f[3] = "bsa"}
  IN IF found = {} THEN {NoFile} ELSE found

\* find_bsa_file: the children of mod_path whose suffix is .bsa in any case;
\* iterdir gives no order, so any of them can be the one returned
find_bsa_file(mod) ==
  LET found == {f \in mod.files : f[1] = 0 /\ Lower(f[3]) = "bsa"}
  IN IF found = {} THEN {NoFile} ELSE found

\* line 141: file.lower().endswith(('.fuz', '.xwm'))
IsLooseAudio(f) == Lower(f[3]) \in {"fuz", "xwm"}

\* every file copied into the root of the workspace
destination_flat(f) == <<0, f[2], f[3]>>

\* lines 145-148: where a file found under mod_path goes in the workspace
destination(f) == <<f[1], f[2], f[3]>>

Max(a, b) == IF a >= b THEN a ELSE b

\* mkdir(parents=True, exist_ok=True) of level k of the workspace
mkdirs(t, k) == [t EXCEPT !.depth = Max(@, k)]

\* the loop of find_audio_files over the files in files, none failing
copy_all(t, files) ==
  IF files = {} THEN t
  ELSE [depth |-> Max(t.depth, CHOOSE k \in Levels :
                        (\E f \in files : f[1] = k) /\ (\A f \in files : f[1] <= k)),
        files |-> t.files \cup {destination(f) : f \in files}]

\* find_audio_files; e.mk: the first mkdir succeeds; e.cp: <<>> or the file
\* at which a step fails and the step, <<file, "mkdir" | "copy">>; e.done:
\* the files of that file's directory handled before it
find_audio_files(x, mod, e) ==
  LET matches == {f \in mod.files : IsLooseAudio(f)}
      x1 == [x EXCEPT !.tree = mkdirs(@, 0), !.scanned = TRUE]
      bad == e.cp[1]
      before == {f \in matches : f[1] < bad[1]} \cup e.done
      t2 == copy_all(x1.tree, before)
  IN IF ~e.mk THEN Raise(x, "mkdir")
     ELSE IF e.cp = <<>> THEN [x1 EXCEPT !.tree = copy_all(@, matches)]
     ELSE IF e.cp[2] = "mkdir" THEN Raise([x1 EXCEPT !.tree = t2], "mkdir")
     ELSE Raise([x1 EXCEPT !.tree = mkdirs(t2, bad[1])], "copy")

\* the value find_audio_files returns when it does, lines 151-153
audio_files_value(mod) ==
  IF \E f \in mod.files : IsLooseAudio(f) THEN Workspace ELSE "None"

\* extract_bsa; e.rm: rmtree succeeds; e.pick: what find_bsa_file returns;
\* e.ext: the extractor's outcome; e.content: the tree it unpacked
extract_bsa(x, mod, e) ==
  LET x1 == IF x.tree.depth >= 0 THEN [x EXCEPT !.tree = NoTree] ELSE x
      command == <<"unpack", e.pick, Workspace>>
      x2 == [x1 EXCEPT !.tree = mkdirs(@, 0), !.runs = Append(@, command)]
  IN IF x.tree.depth >= 0 /\ ~e.rm THEN Raise(x, "rmtree")
     ELSE IF mod.depth < 0 THEN Raise(x1, "listdir")
     ELSE IF e.pick # NoFile
       THEN IF ~e.mk THEN Raise(x1, "mkdir")
            ELSE CASE e.ext = Launch -> Raise(x2, "launch")
                   [] e.ext = ExitN ->
                        [x2 EXCEPT !.tree = e.content, !.errors = @ + 1,
                                   !.fails = @ \cup {"exit"}]
                   [] OTHER -> [x2 EXCEPT !.tree = e.content]
       ELSE LET x3 == find_audio_files(x1, mod, e)
            IN IF x3.raised \/ audio_files_value(mod) # "None" THEN x3
               ELSE [x3 EXCEPT !.errors = @ + 1]

\* the value extract_bsa returns when it does
extract_bsa_value(mod, e) ==
  IF e.pick # NoFile
    THEN (IF e.ext = Exit0 THEN Workspace ELSE "None")
    ELSE audio_files_value(mod)

\* the mod directories handed to extract_bsa
ModTrees == Trees(ModPaths, MaxModFiles)

\* what an archive can unpack to
ArchiveContents ==
  {[depth |-> MaxDepth, files |-> F] : F \in {{}} \cup {{f} : f \in Paths}}

NoContent == [depth |-> 0, files |-> {}]

CopyEnvs(mod) ==
  LET matches == {f \in mod.files : IsLooseAudio(f)}
  IN {[mk |-> FALSE, cp |-> <<>>, done |-> {}]}
     \cup {[mk |-> TRUE, cp |-> <<>>, done |-> {}]}
     \cup UNION {{[mk |-> TRUE, cp |-> <<f, k>>, done |-> D] :
                    k \in {"mkdir", "copy"},
                    D \in SUBSET {g \in matches : g[1] = f[1] /\ g # f}}
                 : f \in matches}

ExtractEnvs(t, mod) ==
  UNION {
    IF b = NoFile
      THEN {[rm |-> TRUE, pick |-> b, mk |-> c.mk, ext |-> Exit0,
             content |-> NoContent, cp |-> c.cp, done |-> c.done] : c \in CopyEnvs(mod)}
      ELSE {[rm |-> TRUE, pick |-> b, mk |-> TRUE, ext |-> o, content |-> a,
             cp |-> <<>>, done |-> {}] :
               o \in {Exit0, ExitN}, a \in ArchiveContents}
           \cup {[rm |-> TRUE, pick |-> b, mk |-> k, ext |-> Launch,
                  content |-> NoContent, cp |-> <<>>, done |-> {}] : k \in BOOLEAN}
    : b \in find_bsa_file(mod)}
  \cup (IF t.depth >= 0
          THEN {[rm |-> FALSE, pick |-> NoFile, mk |-> FALSE, ext |-> Exit0,
                 content |-> NoContent, cp |-> <<>>, done |-> {}]}
          ELSE {})

XResult(op, x, value, note) ==
  [op |-> op, path |-> <<>>,
   result |-> IF x.raised THEN "raised" ELSE "returned",
   value |-> IF x.raised THEN "exception" ELSE value,
   errors |-> x.errors, fails |-> x.fails, delFail |-> FALSE,
   conv |-> {}, note |-> note]

ExtractBsa ==
  /\ Ready
  /\ \E mod \in ModTrees : \E e \in ExtractEnvs(ws, mod) :
       LET x == extract_bsa(StartX(ws), mod, e)
       IN /\ ws' = x.tree
          /\ last' = XResult("extract_bsa", x, extract_bsa_value(mod, e),
                        [mod |-> IF "rmtree" \in x.fails THEN NoTree ELSE mod,
                         runs |-> x.runs, scanned |-> x.scanned, ext |-> e.ext])
  /\ pc' = "returned"
  /\ UNCHANGED <<walk, locVars, setVars>>

NextEditor ==
  \/ DeleteFile
  \/ ConvertXwm
  \/ DecodeFuz
  \/ ConvertAudioFiles
  \/ ExtractBsa
  \/ WalkFile
  \/ WalkNextDir
  \/ WalkReturn
  \/ Return


(***************************************************************************)
(* PART 2 - Localisator and LocalisationSection                            *)
(*                                                                         *)
(* A Python value is a string, a LocalisationSection or a bound method.    *)
(* The attributes of an object are a function from names to values.  The   *)
(* text of a string is a tuple: <<name>> for a name, <<tag, stem, key>>    *)
(* for the string a language file gives a key.                             *)
(***************************************************************************)
Str(s) == [kind |-> "str", text |-> s]
Section(name, attrs) == [kind |-> "section", name |-> name, attrs |-> attrs]
Method(name) == [kind |-> "method", text |-> name]
NoAttrs == [k \in {} |-> Str(<<>>)]

\* repr() of a value, lines 24-28 for a section
repr(v) == IF v.kind = "section" THEN v.name ELSE v.text

System == "System"
DefaultLang == "en_US"
FailedLang == "en _US"
LangTags == {"en_US", "de_DE", "fr_FR"}
SectionStems == {"main", "settings"}
Keys == {"ok", "cancel"}

\* the file <root>/<tag>/<stem>.json: its top-level keys and their strings
FileKeys(stem) == IF stem = "main" THEN Keys ELSE {"ok"}
json_load(tag, stem) == [k \in FileKeys(stem) |-> Str(<<tag, stem, k>>)]

\* the names looked up: sections, keys, an attribute of the object itself,
\* and names no file defines
LookupNames == SectionStems \cup {"about"}
LookupKeys == Keys \cup {"help"}

\* LocalisationSection.__getattribute__ that logs nothing
section_getattribute_silent(sec, name) ==
  IF name \in DOMAIN sec.attrs
    THEN [value |-> sec.attrs[name], warnings |-> 0]
    ELSE [value |-> Str(<<name>>), warnings |-> 0]

\* LocalisationSection.__getattribute__, lines 30-35
section_getattribute(sec, name) ==
  IF name \in DOMAIN sec.attrs
    THEN [value |-> sec.attrs[name], warnings |-> 0]
    ELSE [value |-> Str(<<name>>), warnings |-> 1]

\* what object.__getattribute__ finds on a Localisator: the methods of the
\* class, the attributes set in __init__, and the sections load_lang set
ObjectAttrs(L) ==
  [n \in {"load_lang", "get_available_langs", "language", "lang_path"}
        \cup DOMAIN L.sections |->
     CASE n \in DOMAIN L.sections -> L.sections[n]
       [] n = "language" -> Str(<<L.language>>)
       [] n = "lang_path" -> Str(<<L.lang_path>>)
       [] OTHER -> Method(<<n>>)]

\* Localisator.__getattribute__, lines 99-104
localisator_getattribute(L, name) ==
  IF name \in DOMAIN ObjectAttrs(L)
    THEN [value |-> ObjectAttrs(L)[name], warnings |-> 0]
    ELSE [value |-> Section(<<name>>, NoAttrs), warnings |-> 1]

\* Localisator.__init__, lines 47-51; lang_path is kept as the name of the
\* directory under the root
NewLocalisator(lang) ==
  [language |-> lang, lang_path |-> lang, sections |-> NoAttrs,
   status |-> "constructed", requested |-> lang, resolved |-> "none"]

\* the answers to GetUserDefaultLangID / locale.windows_locale: a language
\* tag, or a failure of either call
SystemAnswers ==
  {[ok |-> TRUE, tag |-> t] : t \in LangTags}
  \cup {[ok |-> FALSE, tag |-> c] : c \in {"GetUserDefaultLangID", "windows_locale"}}

\* lines 84-94: every *.json of the directory becomes a section
load_files(L, fs) ==
  IF L.lang_path \in DOMAIN fs
    THEN [L EXCEPT !.sections =
            [n \in DOMAIN @ \cup fs[L.lang_path] |->
               IF n \in fs[L.lang_path]
                 THEN Section(<<n, ".json">>, json_load(L.lang_path, n))
                 ELSE @[n]]]
    ELSE L

\* lines 75-82 with the language set but the path left as it was
fall_back_language_only(L, fs) ==
  IF L.lang_path \notin DOMAIN fs
    THEN [L EXCEPT !.language = DefaultLang]
    ELSE L

\* lines 75-82: fall back to en_US when the directory does not exist
fall_back(L, fs) ==
  IF L.lang_path \notin DOMAIN fs
    THEN [L EXCEPT !.language = DefaultLang, !.lang_path = DefaultLang]
    ELSE L

\* lines 62-73: resolve "System".  When either call fails, system_language
\* is still unbound at line 73, so the handler itself raises
\* UnboundLocalError after line 72 has set the language.
detect_system(L, ans) ==
  IF L.language # System THEN L
  ELSE IF ans.ok
    THEN [L EXCEPT !.language = ans.tag, !.lang_path = ans.tag,
                   !.resolved = ans.tag]
    ELSE [L EXCEPT !.language = FailedLang, !.status = "crashed",
                   !.resolved = "failed"]

\* load_lang, lines 56-94
load_lang(L, fs, ans) ==
  LET L1 == detect_system(L, ans)
  IN IF L1.status = "crashed" THEN L1
     ELSE [load_files(fall_back(L1, fs), fs) EXCEPT !.status = "loaded"]

NoLookup == [expr |-> <<>>, values |-> <<>>, warnings |-> <<>>]

LoadLang ==
  /\ loc.status = "constructed"
  /\ \E ans \in IF loc.language = System THEN SystemAnswers
                ELSE {[ok |-> TRUE, tag |-> loc.language]} :
       loc' = load_lang(loc, langs, ans)
  /\ look' = NoLookup
  /\ UNCHANGED <<langs, audioVars, setVars>>

\* evaluating loc.<name>
LookupSection ==
  /\ loc.status # "crashed"
  /\ \E name \in LookupNames \cup {"language"} :
       LET r == localisator_getattribute(loc, name)
       IN look' = [expr |-> <<name>>, values |-> <<r.value>>,
                   warnings |-> <<r.warnings>>]
  /\ UNCHANGED <<langs, loc, audioVars, setVars>>

\* evaluating loc.<name>.<key>, <name> a section or an undefined name
LookupKey ==
  /\ loc.status # "crashed"
  /\ \E name \in LookupNames, key \in LookupKeys :
       LET r1 == localisator_getattribute(loc, name)
           r2 == section_getattribute(r1.value, key)
       IN look' = [expr |-> <<name, key>>, values |-> <<r1.value, r2.value>>,
                   warnings |-> <<r1.warnings, r2.warnings>>]
  /\ UNCHANGED <<langs, loc, audioVars, setVars>>

\* the localisation roots: each language directory is absent or holds some
\* of the section files
LangRoots ==
  UNION {[D -> SUBSET SectionStems] : D \in SUBSET LangTags}

NextLoc ==
  \/ LoadLang
  \/ LookupSection
  \/ LookupKey

(***************************************************************************)
(* PART 3 - AppSettings                                                    *)
(*                                                                         *)
(* The state of the panel is the state of its six widgets.  The detector   *)
(* confidence is counted in hundredths.                                    *)
(***************************************************************************)
MinLogsNum == -1
MaxLogsNum == 100
MinConfidence == 0
MaxConfidence == 100
ConfidenceStep == 5

\* utils.LOG_LEVELS.values()
LogLevels == {"debug", "info", "warning", "error", "critical"}

\* str.capitalize() and str.lower() on the texts of the log level box
capitalize(t) ==
  CASE t = "debug" -> "Debug"
    [] t = "info" -> "Info"
    [] t = "warning" -> "Warning"
    [] t = "error" -> "Error"
    [] t = "critical" -> "Critical"
    [] t = "WARNING" -> "Warning"
    [] t = "verbose" -> "Verbose"
    [] OTHER -> t

lower(t) ==
  CASE t = "Debug" -> "debug"
    [] t = "Info" -> "info"
    [] t = "Warning" -> "warning"
    [] t = "Error" -> "error"
    [] t = "Critical" -> "critical"
    [] t = "WARNING" -> "warning"
    [] t = "Verbose" -> "verbose"
    [] OTHER -> t

\* loc.get_available_langs(), lines 96-97 of localisation.py
AvailableLangs == {"en_US", "de_DE"}

\* the texts an accent colour entry can hold; the hex colour strings
HexColors == {"#8197ec", "#1a2b3c"}
ColorTexts == HexColors \cup {"red", "", "8197ec"}

\* QColor.isValidColor: a hex colour string or a colour name
isValidColor(t) == t \in HexColors \cup {"red"}

\* QSpinBox.setValue without the range of line 40
setValue_unbounded(lo, hi, v) == v

\* QSpinBox.setValue / QDoubleSpinBox.setValue under setRange(lo, hi)
setValue(lo, hi, v) == IF v < lo THEN lo ELSE IF v > hi THEN hi ELSE v

\* QComboBox.setCurrentText on a box that is not editable: the item with
\* that text becomes current, and nothing changes when there is none
setCurrentText(items, current, text) == IF text \in items THEN text ELSE current

\* the configurations the panel can be built from
AppConfigs ==
  [keep_logs_num : {-5, -1, 0, 100, 150},
   log_level : {"debug", "critical", "WARNING", "verbose"},
   language : {System, "de_DE", "fr_FR"},
   accent_color : ColorTexts,
   detector_confidence : {-10, 0, 80, 250},
   auto_bind_nxm : BOOLEAN]

LogLevelItems == {capitalize(l) : l \in LogLevels}
LangItems == {System} \cup AvailableLangs

\* AppSettings.__init__, lines 27-108
NewAppSettings(cfg) ==
  [logs_num_box |-> setValue(MinLogsNum, MaxLogsNum, cfg.keep_logs_num),
   log_level_box |-> setCurrentText(LogLevelItems, "Debug", capitalize(cfg.log_level)),
   app_lang_box |-> setCurrentText(LangItems, System, cfg.language),
   accent_color_entry |-> cfg.accent_color,
   icon_color |-> cfg.accent_color,
   confidence_box |-> setValue(MinConfidence, MaxConfidence, cfg.detector_confidence),
   bind_nxm_checkbox |-> cfg.auto_bind_nxm,
   edits |-> 0]

\* get_settings, lines 117-125
get_settings(w) ==
  [keep_logs_num |-> w.logs_num_box,
   log_level |-> lower(w.log_level_box),
   language |-> w.app_lang_box,
   accent_color |-> w.accent_color_entry,
   detector_confidence |-> w.confidence_box,
   auto_bind_nxm |-> w.bind_nxm_checkbox]

\* got before get_settings is called: nothing; after: <<the mapping>>
NotAsked == <<>>

\* an edit: the widget changes, on_change emits the signal, and whoever
\* held the settings has to read them again
Edit(w) ==
  /\ sw' = [w EXCEPT !.edits = 1]
  /\ got' = NotAsked
  /\ UNCHANGED <<audioVars, locVars>>

EditLogsNum ==
  \E v \in {-5, -1, 0, 100, 150} :
    /\ setValue(MinLogsNum, MaxLogsNum, v) # sw.logs_num_box
    /\ Edit([sw EXCEPT !.logs_num_box = setValue(MinLogsNum, MaxLogsNum, v)])

SelectLogLevel ==
  \E t \in LogLevelItems \ {sw.log_level_box} :
    Edit([sw EXCEPT !.log_level_box = t])

SelectLanguage ==
  \E t \in LangItems \ {sw.app_lang_box} :
    Edit([sw EXCEPT !.app_lang_box = t])

\* typing in the accent colour entry
EditAccentColor ==
  \E t \in ColorTexts \ {sw.accent_color_entry} :
    Edit([sw EXCEPT !.accent_color_entry = t])

\* choose_color, lines 67-84, when the dialog is accepted with colour c
ChooseColor ==
  \E c \in HexColors :
    IF c = sw.accent_color_entry
      THEN /\ sw' = [sw EXCEPT !.icon_color = c]
           /\ UNCHANGED <<got, audioVars, locVars>>
      ELSE Edit([sw EXCEPT !.accent_color_entry = c, !.icon_color = c])

\* the confidence box: a typed value, or one step up or down
EditConfidence ==
  \E v \in {-10, 0, 80, 250, sw.confidence_box - ConfidenceStep,
            sw.confidence_box + ConfidenceStep} :
    /\ setValue(MinConfidence, MaxConfidence, v) # sw.confidence_box
    /\ Edit([sw EXCEPT !.confidence_box = setValue(MinConfidence, MaxConfidence, v)])

ToggleBindNxm ==
  \E b \in BOOLEAN \ {sw.bind_nxm_checkbox} :
    Edit([sw EXCEPT !.bind_nxm_checkbox = b])

GetSettings ==
  /\ got' = <<get_settings(sw)>>
  /\ UNCHANGED <<sw, audioVars, locVars>>

NextSettings ==
  \/ EditLogsNum
  \/ SelectLogLevel
  \/ SelectLanguage
  \/ EditAccentColor
  \/ ChooseColor
  \/ EditConfidence
  \/ ToggleBindNxm
  \/ GetSettings

(***************************************************************************)
(* The three specifications.  Each component runs on its own; the other    *)
(* two stay as constructed.                                                *)
(***************************************************************************)
RestConfig == CHOOSE cfg \in AppConfigs : cfg.language = System

InitEditor ==
  /\ ws \in Trees(Paths, MaxFiles)
  /\ pc = "idle"
  /\ walk = NoWalk
  /\ last = NoCall
  /\ langs = [t \in {DefaultLang} |-> SectionStems]
  /\ loc = NewLocalisator(DefaultLang)
  /\ look = NoLookup
  /\ sw = NewAppSettings(RestConfig)
  /\ got = NotAsked

InitLoc ==
  /\ langs \in LangRoots
  /\ \E lang \in {System} \cup LangTags : loc = NewLocalisator(lang)
  /\ look = NoLookup
  /\ ws = NoTree
  /\ pc = "idle"
  /\ walk = NoWalk
  /\ last = NoCall
  /\ sw = NewAppSettings(RestConfig)
  /\ got = NotAsked

InitSettings ==
  /\ \E cfg \in AppConfigs : sw = NewAppSettings(cfg)
  /\ got = NotAsked
  /\ ws = NoTree
  /\ pc = "idle"
  /\ walk = NoWalk
  /\ last = NoCall
  /\ langs = [t \in {DefaultLang} |-> SectionStems]
  /\ loc = NewLocalisator(DefaultLang)
  /\ look = NoLookup

SpecEditor == InitEditor /\ [][NextEditor]_vars

SpecLoc == InitLoc /\ [][NextLoc]_vars

SpecSettings == InitSettings /\ [][NextSettings]_vars

(***************************************************************************)
(* Properties of the AudioTranslationEditor.                               *)
(***************************************************************************)
AtReturn(op) == pc = "returned" /\ last.op = op /\ last.result = "returned"

\* C1 as stated: whenever convert_xwm(path) returns, whatever the encoder's
\* exit code and whether or not the .wav was written, no file exists at path.
C1_InputAlwaysGone ==
  AtReturn("convert_xwm") => last.path \notin ws.files

\* C1 amended: whenever convert_xwm(path) returns, whatever the encoder's
\* exit code, the input is gone unless the unlink of the existing input
\* failed inside delete_file (which logs the OSError and returns).
C1_InputGoneUnlessUnlinkFailed ==
  AtReturn("convert_xwm") =>
    /\ last.path \in last.conv
    /\ last.path \notin ws.files \/ last.delFail
    /\ last.delFail => last.errors >= 1

\* C1 witness: the encoder exited non-zero, wrote no .wav, and the existing
\* input was unlinked all the same.
C1_Witness ==
  /\ AtReturn("convert_xwm")
  /\ last.note.enc = ExitN /\ ~last.note.wav
  /\ "unlink" \notin last.fails
  /\ last.path \notin ws.files

C3_NeverRaises ==
  pc = "returned" => last.result # "raised"

\* the failures no except clause of the editor catches
Uncaught == {"launch", "rmtree", "listdir", "mkdir", "copy"}

\* C3 amended: an editor operation ends with an exception exactly when a
\* tool could not be launched or an rmtree, directory listing, mkdir or
\* copy failed; a non-zero exit code and a failed unlink are logged and the
\* operation returns None, True, False or the workspace path.
C3_RaisesOnlyUncaught ==
  pc = "returned" =>
    /\ last.result = "raised" <=> last.fails \cap Uncaught # {}
    /\ last.result = "returned" => last.value \in {"None", "True", "False", Workspace}
    /\ (last.op # "convert_audio_files" /\ last.fails \cap {"exit", "unlink"} # {})
         => last.errors >= 1

\* C3 witness: an operation returned after a non-zero exit code and a
\* failed unlink.
C3_Witness ==
  /\ pc = "returned" /\ last.result = "returned"
  /\ {"exit", "unlink"} \subseteq last.fails

HasArchive(mod) == \E f \in mod.files : f[1] = 0 /\ Lower(f[3]) = "bsa"

C10_NoAudioLeft ==
  AtReturn("convert_audio_files") =>
    /\ ~last.delFail =>
         \A f \in ws.files : Lower(f[3]) \notin {"fuz", "xwm", "lip"}
    /\ last.value = "True" <=> last.note.seen
    /\ last.value \in {"True", "False"}

\* C10 witness: the walk returned True with every existing file unlinked,
\* a .wav written, and a listed file handled after it was already removed.
C10_Witness ==
  /\ AtReturn("convert_audio_files")
  /\ last.value = "True"
  /\ ~last.delFail
  /\ "unlink" \in last.fails
  /\ \E f \in ws.files : f[3] = "wav"

(***************************************************************************)
(* Properties of the Localisator.                                          *)
(***************************************************************************)
\* whether step i of the last lookup asked for a name that is not defined
Undefined(i) ==
  IF i = 1
    THEN look.expr[1] \notin
           DOMAIN loc.sections
             \cup {"language", "lang_path", "load_lang", "get_available_langs"}
    ELSE look.expr[2] \notin DOMAIN look.values[1].attrs

\* C6 as stated: every lookup of an undefined name, of a key on a section
\* or of a section on the Localisator, alone or chained, returns the name
\* itself and logs exactly one warning.
C6_UndefinedReturnsName ==
  \A i \in 1..Len(look.expr) :
    Undefined(i) =>
      /\ look.values[i].kind = "str"
      /\ repr(look.values[i]) = <<look.expr[i]>>
      /\ look.warnings[i] = 1

\* C6 amended: every lookup of an undefined name logs exactly one warning
\* (a lookup of a defined name none); an undefined key of a section gives
\* the key's name as a string; an undefined section of the Localisator
\* gives a new empty LocalisationSection whose repr is the name.
C6_UndefinedReturnsPlaceholder ==
  \A i \in 1..Len(look.expr) :
    /\ look.warnings[i] = IF Undefined(i) THEN 1 ELSE 0
    /\ Undefined(i) =>
         /\ repr(look.values[i]) = <<look.expr[i]>>
         /\ look.values[i].kind = IF i = 1 THEN "section" ELSE "str"
         /\ i = 1 => look.values[i].attrs = NoAttrs

\* C6 witness: after loading, a key was looked up on a missing section:
\* two warnings, one for each lookup, and the key's name came back.
C6_Witness ==
  /\ loc.status = "loaded"
  /\ Len(look.expr) = 2
  /\ look.warnings = <<1, 1>>
  /\ look.values[2] = Str(<<look.expr[2]>>)

\* C6 second witness: a key no file defines was looked up on a loaded section.
C6_WitnessLoadedSection ==
  /\ loc.status = "loaded"
  /\ Len(look.expr) = 2
  /\ look.expr[1] \in DOMAIN loc.sections
  /\ look.warnings = <<0, 1>>

\* C7 as stated: when the language is "System" and resolving the system
\* locale fails, load_lang does not fail but goes on to load a language.
C7_SystemFallbackLoads ==
  (loc.requested = System /\ loc.resolved = "failed") =>
    /\ loc.status = "loaded"
    /\ loc.lang_path \in LangTags

SettingsKeys ==
  {"keep_logs_num", "log_level", "language", "accent_color",
   "detector_confidence", "auto_bind_nxm"}

\* every value but the accent colour is in its declared domain
InDomain(g) ==
  /\ DOMAIN g = SettingsKeys
  /\ g.keep_logs_num \in -1..100
  /\ g.log_level \in {"debug", "info", "warning", "error", "critical"}
  /\ g.language \in {"System"} \cup AvailableLangs
  /\ g.detector_confidence \in 0..100
  /\ g.auto_bind_nxm \in BOOLEAN

\* C9 as stated: whatever the configuration and the edits, get_settings
\* returns the six keys, each value in its declared domain, the accent
\* colour a hex colour string.
C9_AllInDomain ==
  got # <<>> => InDomain(got[1]) /\ got[1].accent_color \in HexColors

\* C9 amended: whatever the configuration and the edits, get_settings
\* returns the six keys, each value but the accent colour in its declared
\* domain; the accent colour is the text of the entry as it stands, a hex
\* colour string or not.
C9_AllButColorInDomain ==
  got # <<>> =>
    /\ InDomain(got[1])
    /\ got[1].accent_color = sw.accent_color_entry
    /\ got[1].accent_color \in ColorTexts

\* C9 witness: after an edit get_settings returned a retention count and a
\* confidence at the upper end of their ranges and a text that is no
\* colour at all.
C9_Witness ==
  /\ got # <<>>
  /\ sw.edits = 1
  /\ got[1].keep_logs_num = 100
  /\ got[1].detector_confidence = 100
  /\ ~isValidColor(got[1].accent_color)

====
